---- MODULE Spec2Model ----
(***************************************************************************)
(* State-machine model of the Relay command line program (src/main.py)     *)
(* and of its delay distributions (src/distributions.py).                  *)
(*                                                                         *)
(* Strings that the program parses are modelled as sequences of one        *)
(* character strings, so that split(':'), ipaddress.ip_address() and int() *)
(* are computed, not assumed.  Floating point values are modelled as       *)
(* integers (a fixed number of decimal places).                            *)
(***************************************************************************)
EXTENDS Integers, Sequences, FiniteSets, TLC

(***************************************************************************)
(* Bounds of the model.                                                    *)
(***************************************************************************)
MaxPortLen == 5
MaxProxies == 2
MaxSignals == 2
MaxDraw == 2
MaxCalls == 3
MaxVerbosity == 4
MaxBelow == 2
MaxVerbosityCalls == 3

(***************************************************************************)
(* Program constants.                                                      *)
(***************************************************************************)
MaxPort == 65535
DefaultVerbosity == -1

None == "None"

(***************************************************************************)
(* Character level helpers: str.split, int(), ipaddress.ip_address.        *)
(***************************************************************************)
Digits == {"0", "1", "2", "3", "4", "5", "6", "7", "8", "9"}

DigitVal(c) ==
    CASE c = "0" -> 0 [] c = "1" -> 1 [] c = "2" -> 2 [] c = "3" -> 3
      [] c = "4" -> 4 [] c = "5" -> 5 [] c = "6" -> 6 [] c = "7" -> 7
      [] c = "8" -> 8 [] c = "9" -> 9

RECURSIVE SplitFrom(_, _, _, _)
\* str.split(sep): cur is the field being collected, i the next position.
SplitFrom(s, sep, i, cur) ==
    IF i > Len(s) THEN <<cur>>
    ELSE IF s[i] = sep THEN <<cur>> \o SplitFrom(s, sep, i + 1, <<>>)
    ELSE SplitFrom(s, sep, i + 1, Append(cur, s[i]))

Split(s, sep) == SplitFrom(s, sep, 1, <<>>)

AllDigits(s) == \A i \in 1..Len(s) : s[i] \in Digits

RECURSIVE DecimalValue(_)
DecimalValue(s) ==
    IF Len(s) = 0 THEN 0
    ELSE 10 * DecimalValue(SubSeq(s, 1, Len(s) - 1)) + DigitVal(s[Len(s)])

\* int(port): an optional sign followed by at least one decimal digit.
\* (Surrounding whitespace and digit-group underscores, which int() also
\* accepts, are not in the alphabet of the modelled inputs.)
IntParse(s) ==
    LET signed == Len(s) > 0 /\ s[1] \in {"-", "+"}
        body   == IF signed THEN SubSeq(s, 2, Len(s)) ELSE s
    IN  IF Len(body) = 0 \/ ~AllDigits(body)
        THEN [ok |-> FALSE, value |-> 0]
        ELSE [ok |-> TRUE,
              value |-> IF signed /\ s[1] = "-" THEN 0 - DecimalValue(body)
                        ELSE DecimalValue(body)]

\* One octet of a dotted quad, as ipaddress.IPv4Address parses it: one to
\* three decimal digits, no leading zero, at most 255.
ValidOctet(o) ==
    /\ Len(o) \in 1..3
    /\ AllDigits(o)
    /\ (Len(o) > 1 => o[1] # "0")
    /\ DecimalValue(o) <= 255

\* ipaddress.ip_address(ip) returns (rather than raises ValueError).  The
\* argument is one field of address.split(':'), so it holds no colon and
\* can only be an IPv4 literal.
ValidIP(ip) ==
    LET octets == Split(ip, ".")
    IN  /\ Len(octets) = 4
        /\ \A k \in 1..4 : ValidOctet(octets[k])

Raised == [raised |-> TRUE, ip |-> <<>>, port |-> 0]

\* parse_IP_address(address): every exception of the body (the unpacking of
\* split(':'), ip_address, int, the assert) is turned into RuntimeError.
parse_IP_address(address) ==
    LET parts == Split(address, ":")
    IN  IF Len(parts) # 2 THEN Raised
        ELSE IF ~ValidIP(parts[1]) THEN Raised
        ELSE IF ~IntParse(parts[2]).ok THEN Raised
        ELSE IF ~(IntParse(parts[2]).value <= MaxPort) THEN Raised
        ELSE [raised |-> FALSE, ip |-> parts[1], port |-> IntParse(parts[2]).value]

(***************************************************************************)
(* Inputs of the address parser.                                           *)
(***************************************************************************)
PortAlphabet == {"-", "3", "5", "6"}

PortStrings == UNION {[1..k -> PortAlphabet] : k \in 0..MaxPortLen}

IP_OK    == <<"1", ".", "2", ".", "3", ".", "4">>
IP_256   == <<"2", "5", "6", ".", "0", ".", "0", ".", "1">>
IP_SHORT == <<"1", ".", "2", ".", "3">>
IP_NAME  == <<"h", "o", "s", "t">>

IPStrings == {IP_OK, IP_256, IP_SHORT, IP_NAME}

Colon == <<":">>

\* IP:PORT strings, and strings with no colon or with two colons.
AddressStrings ==
    {ip \o Colon \o p : ip \in IPStrings, p \in PortStrings}
      \cup {IP_OK \o p : p \in PortStrings}
      \cup {IP_OK \o Colon \o p \o Colon : p \in PortStrings}

(***************************************************************************)
(* State.                                                                  *)
(*   address, parsed, parsePc     one call of parse_IP_address             *)
(*   mode, config, pc, idx        the CLI command that runs and its        *)
(*                                position (from_file or proxy <dist>)     *)
(*   proxies                      the DuplexRelay instances built so far   *)
(*   handlerInstalled, hidx       the SIGINT handler and its loop index    *)
(*   nsig, handled                signals delivered; a handler has run     *)
(*   outcome                      how the process ended                    *)
(*   dist                         the fields of one Distribution instance  *)
(*   pumpPc, draw, result         per forwarding pump: where it is in      *)
(*                                sample(), the sampler's draw, the value  *)
(*                                sample() returned                        *)
(*   ncalls                       calls of sample() so far                 *)
(*   verbosity, loggerLevel       State.verbosity and the level of the     *)
(*                                default logger                           *)
(*   passed                       the values passed to set_verbosity       *)
(***************************************************************************)
VARIABLES address, parsed, parsePc,
          mode, config, pc, idx, proxies, handlerInstalled, hidx, nsig,
          handled, outcome,
          dist, pumpPc, draw, result, ncalls,
          verbosity, loggerLevel, passed

parseVars == <<address, parsed, parsePc>>
runVars   == <<mode, config, pc, idx, proxies, handlerInstalled, hidx, nsig,
               handled, outcome>>
distVars  == <<dist, pumpPc, draw, result, ncalls>>
verbVars  == <<verbosity, loggerLevel, passed>>
vars      == <<parseVars, runVars, distVars, verbVars>>

(***************************************************************************)
(* The address parser on its own.                                          *)
(***************************************************************************)
InitParse ==
    /\ address \in AddressStrings
    /\ parsed = Raised
    /\ parsePc = "ready"

IdleParse ==
    /\ address = <<>>
    /\ parsed = Raised
    /\ parsePc = "idle"

\* One call of parse_IP_address on the chosen string.
Parse ==
    /\ parsePc = "ready"
    /\ parsed' = parse_IP_address(address)
    /\ parsePc' = "done"
    /\ UNCHANGED <<address, runVars, distVars, verbVars>>

(***************************************************************************)
(* Distribution lookup and construction as from_file does it:              *)
(* the class found under name.upper() is called with the params as        *)
(* keyword arguments.                                                      *)
(***************************************************************************)
\* Keys of avail_distributions: the upper-cased class names of the
\* subclasses of Distribution.
avail_distributions ==
    {"CONSTANTDISTRIBUTION", "GAUSSIANDISTRIBUTION", "EXPONENTIALDISTRIBUTION",
     "LOGNORMALDISTRIBUTION", "POISSONDISTRIBUTION"}

\* str.upper() on the distribution names the modelled configurations use.
Upper(name) ==
    CASE name = "constantdistribution" -> "CONSTANTDISTRIBUTION"
      [] name = "GaussianDistribution" -> "GAUSSIANDISTRIBUTION"
      [] name = "constant"             -> "CONSTANT"
      [] OTHER                         -> name

\* Constructor parameters without a default, per class.
RequiredParams(cls) ==
    CASE cls = "CONSTANTDISTRIBUTION"    -> {"constant"}
      [] cls = "GAUSSIANDISTRIBUTION"    -> {"mean", "std_dev"}
      [] cls = "EXPONENTIALDISTRIBUTION" -> {"scale"}
      [] cls = "LOGNORMALDISTRIBUTION"   -> {"mean", "std_dev"}
      [] cls = "POISSONDISTRIBUTION"     -> {"mean"}

\* Constructor parameters with a default, per class.
OptionalParams(cls) ==
    IF cls = "GAUSSIANDISTRIBUTION" THEN {"strictly_positive"} ELSE {}

\* The exception of the lookup and constructor call, or None:
\* KeyError for a name that is no key, TypeError for keyword arguments the
\* constructor's signature does not accept or misses.
DistError(name, params) ==
    LET cls == Upper(name)
    IN  IF cls \notin avail_distributions THEN "KeyError"
        ELSE IF ~(RequiredParams(cls) \subseteq params
                  /\ params \subseteq RequiredParams(cls) \cup OptionalParams(cls))
        THEN "TypeError"
        ELSE None

(***************************************************************************)
(* DuplexRelay (relay.py): lifecycle CREATED -> LISTENING -> STOPPED.      *)
(* starts and stops count the calls of start() and stop() on the instance. *)
(***************************************************************************)
NewRelay(entry, lport, cport) ==
    [state |-> "CREATED", entry |-> entry, listen_port |-> lport,
     connect_port |-> cport, starts |-> 0, stops |-> 0]

\* stop() that fails on a relay that is not listening.
RelayStopOnlyListening(r) ==
    IF r.state = "LISTENING"
    THEN [raised |-> FALSE, relay |-> [r EXCEPT !.state = "STOPPED", !.stops = @ + 1]]
    ELSE [raised |-> TRUE, relay |-> [r EXCEPT !.stops = @ + 1]]

\* start(): binds and listens, or fails with BindError when the address is
\* unavailable; STOPPED is terminal.
RelayStart(r, bindOK) ==
    IF r.state # "CREATED"
    THEN [raised |-> FALSE, relay |-> [r EXCEPT !.starts = @ + 1]]
    ELSE IF bindOK
    THEN [raised |-> FALSE, relay |-> [r EXCEPT !.state = "LISTENING", !.starts = @ + 1]]
    ELSE [raised |-> TRUE, relay |-> [r EXCEPT !.starts = @ + 1]]

\* stop(): idempotent, from any state, never raises.
RelayStop(r) ==
    [raised |-> FALSE, relay |-> [r EXCEPT !.state = "STOPPED", !.stops = @ + 1]]

(***************************************************************************)
(* Configurations: the entries of config['proxies'].                       *)
(***************************************************************************)
P80    == <<"8", "0">>
P81    == <<"8", "1">>
PNEG   == <<"-", "1">>
PBIG   == <<"6", "5", "5", "3", "6">>

Entry(b, c, n, ps) == [bind_addr |-> b, connect_addr |-> c, name |-> n, params |-> ps]

E_OK1      == Entry(IP_OK \o Colon \o P80, IP_OK \o Colon \o P81,
                    "constantdistribution", {"constant"})
E_OK2      == Entry(IP_OK \o Colon \o P81, IP_OK \o Colon \o P80,
                    "GaussianDistribution", {"mean", "std_dev", "strictly_positive"})
E_BADBIND  == Entry(IP_SHORT \o Colon \o P80, IP_OK \o Colon \o P81,
                    "constantdistribution", {"constant"})
E_BADCONN  == Entry(IP_OK \o Colon \o P80, IP_OK \o Colon \o PBIG,
                    "constantdistribution", {"constant"})
E_NEGPORT  == Entry(IP_OK \o Colon \o PNEG, IP_OK \o Colon \o P81,
                    "constantdistribution", {"constant"})
E_BADNAME  == Entry(IP_OK \o Colon \o P80, IP_OK \o Colon \o P81,
                    "constant", {"constant"})
E_BADPARAM == Entry(IP_OK \o Colon \o P80, IP_OK \o Colon \o P81,
                    "GaussianDistribution", {"mean"})

Entries == {E_OK1, E_OK2, E_BADBIND, E_BADCONN, E_NEGPORT, E_BADNAME, E_BADPARAM}

Configs == UNION {[1..k -> Entries] : k \in 0..MaxProxies}

\* The exception the loop body of from_file raises on entry e, or None.
EntryError(e) ==
    IF parse_IP_address(e.bind_addr).raised THEN "RuntimeError"
    ELSE IF parse_IP_address(e.connect_addr).raised THEN "RuntimeError"
    ELSE DistError(e.name, e.params)

ConfigErrors == {"RuntimeError", "KeyError", "TypeError"}

(***************************************************************************)
(* One run of the command line program: `from_file CONFIG` or              *)
(* `proxy BIND CONNECT <distribution>`.                                    *)
(***************************************************************************)
\* The proxy command takes its two addresses and its distribution from the
\* command line; the subcommand names are the lower-cased class names.
SingleEntries == {E_OK1, E_BADBIND, E_BADCONN, E_NEGPORT}

InitRun ==
    /\ mode \in {"from_file", "proxy"}
    /\ config \in (IF mode = "from_file" THEN Configs
                   ELSE {<<e>> : e \in SingleEntries})
    /\ pc = "build"
    /\ idx = 1
    /\ proxies = <<>>
    /\ handlerInstalled = FALSE
    /\ hidx = 0
    /\ nsig = 0
    /\ handled = FALSE
    /\ outcome = "running"

IdleRun ==
    /\ mode = "none"
    /\ config = <<>>
    /\ pc = "idle"
    /\ idx = 0
    /\ proxies = <<>>
    /\ handlerInstalled = FALSE
    /\ hidx = 0
    /\ nsig = 0
    /\ handled = FALSE
    /\ outcome = "running"

\* The relay from_file builds from entry i of the configuration.
BuiltRelay(i) ==
    NewRelay(i, parse_IP_address(config[i].bind_addr).port,
                parse_IP_address(config[i].connect_addr).port)

\* A loop body that starts each relay as soon as it is built.
BuildEntryEager ==
    /\ mode = "from_file"
    /\ pc = "build"
    /\ idx <= Len(config)
    /\ IF EntryError(config[idx]) # None
       THEN /\ pc' = "done"
            /\ outcome' = EntryError(config[idx])
            /\ UNCHANGED <<idx, proxies>>
       ELSE /\ proxies' = Append(proxies, RelayStart(BuiltRelay(idx), TRUE).relay)
            /\ idx' = idx + 1
            /\ UNCHANGED <<pc, outcome>>
    /\ UNCHANGED <<mode, config, handlerInstalled, hidx, nsig, handled>>
    /\ UNCHANGED <<parseVars, distVars, verbVars>>

\* from_file, one iteration of `for p_config in config['proxies']`: an
\* exception of the body leaves from_file and ends the process.
BuildEntry ==
    /\ mode = "from_file"
    /\ pc = "build"
    /\ idx <= Len(config)
    /\ IF EntryError(config[idx]) # None
       THEN /\ pc' = "done"
            /\ outcome' = EntryError(config[idx])
            /\ UNCHANGED <<idx, proxies>>
       ELSE /\ proxies' = Append(proxies, BuiltRelay(idx))
            /\ idx' = idx + 1
            /\ UNCHANGED <<pc, outcome>>
    /\ UNCHANGED <<mode, config, handlerInstalled, hidx, nsig, handled>>
    /\ UNCHANGED <<parseVars, distVars, verbVars>>

\* proxy: click converts both addresses (INetAddress.convert fails the
\* command with a usage error), then proxy() builds the relay and the
\* subcommand's callback sets its distribution.
ProxyBuild ==
    /\ mode = "proxy"
    /\ pc = "build"
    /\ idx <= Len(config)
    /\ IF EntryError(config[idx]) # None
       THEN /\ pc' = "done"
            /\ outcome' = "UsageError"
            /\ UNCHANGED <<idx, proxies>>
       ELSE /\ proxies' = Append(proxies, BuiltRelay(idx))
            /\ idx' = idx + 1
            /\ UNCHANGED <<pc, outcome>>
    /\ UNCHANGED <<mode, config, handlerInstalled, hidx, nsig, handled>>
    /\ UNCHANGED <<parseVars, distVars, verbVars>>

\* signal.signal(signal.SIGINT, __sig_handler), after every relay is built.
InstallHandler ==
    /\ pc = "build"
    /\ idx > Len(config)
    /\ handlerInstalled' = TRUE
    /\ pc' = "starting"
    /\ idx' = 1
    /\ UNCHANGED <<mode, config, proxies, hidx, nsig, handled, outcome>>
    /\ UNCHANGED <<parseVars, distVars, verbVars>>

\* One p.start(): the address is free or not; BindError leaves the loop and
\* the command.
StartRelay ==
    /\ pc = "starting"
    /\ idx <= Len(proxies)
    /\ \E bindOK \in BOOLEAN :
         LET res == RelayStart(proxies[idx], bindOK)
         IN  /\ proxies' = [proxies EXCEPT ![idx] = res.relay]
             /\ IF res.raised
                THEN /\ pc' = "done"
                     /\ outcome' = "BindError"
                     /\ UNCHANGED idx
                ELSE /\ idx' = idx + 1
                     /\ UNCHANGED <<pc, outcome>>
    /\ UNCHANGED <<mode, config, handlerInstalled, hidx, nsig, handled>>
    /\ UNCHANGED <<parseVars, distVars, verbVars>>

\* All relays started: from_file waits forever (Event().wait()), proxy
\* joins its relay.
StartDone ==
    /\ pc = "starting"
    /\ idx > Len(proxies)
    /\ pc' = IF mode = "from_file" THEN "waiting" ELSE "joining"
    /\ UNCHANGED <<mode, config, idx, proxies, handlerInstalled, hidx, nsig,
                   handled, outcome>>
    /\ UNCHANGED <<parseVars, distVars, verbVars>>

\* state.relay.join() returns once the relay has stopped; the command ends.
Join ==
    /\ pc = "joining"
    /\ proxies[1].state = "STOPPED"
    /\ pc' = "done"
    /\ outcome' = "exit0"
    /\ UNCHANGED <<mode, config, idx, proxies, handlerInstalled, hidx, nsig,
                   handled>>
    /\ UNCHANGED <<parseVars, distVars, verbVars>>

\* SIGINT before signal.signal has run: Python's default handler raises
\* KeyboardInterrupt in the main thread.
SigintDefault ==
    /\ pc = "build"
    /\ ~handlerInstalled
    /\ nsig < MaxSignals
    /\ nsig' = nsig + 1
    /\ pc' = "done"
    /\ outcome' = "KeyboardInterrupt"
    /\ UNCHANGED <<mode, config, idx, proxies, handlerInstalled, hidx, handled>>
    /\ UNCHANGED <<parseVars, distVars, verbVars>>

\* SIGINT in from_file: __sig_handler is entered in the main thread, between
\* two steps of the start loop, during the wait, or inside a running handler
\* (the new invocation runs to its exit(0) before the old one resumes).
SigintFile ==
    /\ mode = "from_file"
    /\ handlerInstalled
    /\ pc \in {"starting", "waiting", "handler"}
    /\ nsig < MaxSignals
    /\ nsig' = nsig + 1
    /\ handled' = TRUE
    /\ pc' = "handler"
    /\ hidx' = 1
    /\ UNCHANGED <<mode, config, idx, proxies, handlerInstalled, outcome>>
    /\ UNCHANGED <<parseVars, distVars, verbVars>>

\* A handler that stops only the relays that have been started.
HandlerStopStartedOnly ==
    /\ pc = "handler"
    /\ hidx <= Len(proxies)
    /\ proxies' = [proxies EXCEPT ![hidx] =
                     IF @.starts > 0 THEN RelayStop(@).relay ELSE @]
    /\ hidx' = hidx + 1
    /\ UNCHANGED <<mode, config, pc, idx, handlerInstalled, nsig, handled, outcome>>
    /\ UNCHANGED <<parseVars, distVars, verbVars>>

\* __sig_handler of from_file, one iteration of `for p in proxies: p.stop()`.
HandlerStop ==
    /\ pc = "handler"
    /\ hidx <= Len(proxies)
    /\ LET res == RelayStop(proxies[hidx])
       IN  /\ proxies' = [proxies EXCEPT ![hidx] = res.relay]
           /\ IF res.raised
              THEN /\ pc' = "done"
                   /\ outcome' = "StopError"
                   /\ UNCHANGED hidx
              ELSE /\ hidx' = hidx + 1
                   /\ UNCHANGED <<pc, outcome>>
    /\ UNCHANGED <<mode, config, idx, handlerInstalled, nsig, handled>>
    /\ UNCHANGED <<parseVars, distVars, verbVars>>

\* __sig_handler of from_file, exit(0) after the loop.
HandlerExit ==
    /\ pc = "handler"
    /\ hidx > Len(proxies)
    /\ pc' = "done"
    /\ outcome' = "exit0"
    /\ UNCHANGED <<mode, config, idx, proxies, handlerInstalled, hidx, nsig,
                   handled>>
    /\ UNCHANGED <<parseVars, distVars, verbVars>>

\* SIGINT in proxy: __sig_handler calls state.relay.stop() and returns to
\* the interrupted call.
SigintProxy ==
    /\ mode = "proxy"
    /\ handlerInstalled
    /\ pc \in {"starting", "joining"}
    /\ nsig < MaxSignals
    /\ nsig' = nsig + 1
    /\ handled' = TRUE
    /\ LET res == RelayStop(proxies[1])
       IN  /\ proxies' = [proxies EXCEPT ![1] = res.relay]
           /\ IF res.raised
              THEN /\ pc' = "done"
                   /\ outcome' = "StopError"
              ELSE UNCHANGED <<pc, outcome>>
    /\ UNCHANGED <<mode, config, idx, handlerInstalled, hidx>>
    /\ UNCHANGED <<parseVars, distVars, verbVars>>

(***************************************************************************)
(* Distributions (distributions.py).  An instance is the record of its     *)
(* fields; the numpy samplers are modelled by the set of values they may   *)
(* draw, as integers.                                                      *)
(***************************************************************************)
Max(a, b) == IF b > a THEN b ELSE a

Params == 0..MaxDraw

ConstantDistribution(constant) == [kind |-> "CONSTANT", constant |-> constant]

GaussianDistribution(mean, std_dev, strictly_positive) ==
    [kind |-> "GAUSSIAN", mean |-> mean, std_dev |-> std_dev,
     positive |-> strictly_positive]

ExponentialDistribution(scale) == [kind |-> "EXPONENTIAL", scale |-> scale]

LogNormalDistribution(mean, std_dev) ==
    [kind |-> "LOGNORMAL", mean |-> mean, std_dev |-> std_dev]

PoissonDistribution(mean) == [kind |-> "POISSON", mean |-> mean]

Instances ==
    {ConstantDistribution(c) : c \in (0 - MaxDraw)..MaxDraw}
      \cup {GaussianDistribution(m, sd, sp) :
              m \in {0 - 1, 0, 1}, sd \in {0, 1}, sp \in BOOLEAN}
      \cup {ExponentialDistribution(sc) : sc \in Params}
      \cup {LogNormalDistribution(m, sd) : m \in {0, 1}, sd \in {0, 1}}
      \cup {PoissonDistribution(m) : m \in Params}

\* What self.dist() may return: np.random.normal(loc, scale) is loc for a
\* zero scale and any value otherwise; exponential and poisson draws are
\* non-negative (zero for a zero parameter), lognormal draws positive.
Draws(d) ==
    CASE d.kind = "CONSTANT"    -> {0}
      [] d.kind = "GAUSSIAN"    -> IF d.std_dev = 0 THEN {d.mean}
                                   ELSE (0 - MaxDraw)..MaxDraw
      [] d.kind = "EXPONENTIAL" -> IF d.scale = 0 THEN {0} ELSE 0..MaxDraw
      [] d.kind = "LOGNORMAL"   -> 1..MaxDraw
      [] d.kind = "POISSON"     -> IF d.mean = 0 THEN {0} ELSE 0..MaxDraw

\* ConstantDistribution.sample that drifts with the number of calls made.
ConstantSampleDrifting(d, n) == d.constant + (IF n > 1 THEN 1 ELSE 0)

\* ConstantDistribution.sample on the n-th call of sample().
ConstantSample(d, n) == d.constant

\* GaussianDistribution.sample that clamps the wrong way round.
GaussianSampleUnclamped(d, x) == IF d.positive THEN x ELSE Max(x, 0)

\* GaussianDistribution.sample, x being the value self.dist() returned.
GaussianSample(d, x) == IF d.positive THEN Max(x, 0) ELSE x

\* sample() of the instance d on the n-th call, the sampler drawing x.
Sample(d, x, n) ==
    CASE d.kind = "CONSTANT" -> ConstantSample(d, n)
      [] d.kind = "GAUSSIAN" -> GaussianSample(d, x)
      [] OTHER               -> x

\* A sample() that keeps its last draw in a field of the instance.
FieldsAfterSampleCaching(d, x) ==
    CASE d.kind = "CONSTANT"    -> [d EXCEPT !.constant = x]
      [] d.kind = "EXPONENTIAL" -> [d EXCEPT !.scale = x]
      [] OTHER                  -> [d EXCEPT !.mean = x]

\* The fields of the instance after sample(): no sample() assigns to self.
FieldsAfterSample(d, x) == d

Pumps == {1, 2}

InitDist ==
    /\ dist \in Instances
    /\ pumpPc = [p \in Pumps |-> "idle"]
    /\ draw = [p \in Pumps |-> <<>>]
    /\ result = [p \in Pumps |-> <<>>]
    /\ ncalls = 0

IdleDist ==
    /\ dist = ConstantDistribution(0)
    /\ pumpPc = [p \in Pumps |-> "off"]
    /\ draw = [p \in Pumps |-> <<>>]
    /\ result = [p \in Pumps |-> <<>>]
    /\ ncalls = 0

\* Pump p enters sample(): the underlying sampler draws.
SampleCall(p) ==
    /\ pumpPc[p] = "idle"
    /\ ncalls < MaxCalls
    /\ ncalls' = ncalls + 1
    /\ \E x \in Draws(dist) : draw' = [draw EXCEPT ![p] = <<x, ncalls + 1>>]
    /\ result' = [result EXCEPT ![p] = <<>>]
    /\ pumpPc' = [pumpPc EXCEPT ![p] = "drawn"]
    /\ UNCHANGED dist
    /\ UNCHANGED <<parseVars, runVars, verbVars>>

\* Pump p returns from sample().
SampleReturn(p) ==
    /\ pumpPc[p] = "drawn"
    /\ result' = [result EXCEPT ![p] = <<Sample(dist, draw[p][1], draw[p][2])>>]
    /\ dist' = FieldsAfterSample(dist, draw[p][1])
    /\ pumpPc' = [pumpPc EXCEPT ![p] = "idle"]
    /\ UNCHANGED <<draw, ncalls>>
    /\ UNCHANGED <<parseVars, runVars, verbVars>>

(***************************************************************************)
(* State.set_verbosity and the level of the default logger.                *)
(***************************************************************************)
\* The level set_verbosity hands to logzero.setup_default_logger.
LevelFor(value) ==
    IF value = 1 THEN "WARNING"
    ELSE IF value = 2 THEN "INFO"
    ELSE IF value >= 3 THEN "DEBUG"
    ELSE "ERROR"

\* set_verbosity without its guard.
set_verbosity_unguarded(st, value) ==
    [verbosity |-> value, level |-> LevelFor(value)]

\* State.set_verbosity(value) on the state st = (verbosity, logger level).
set_verbosity(st, value) ==
    IF value >= st.verbosity
    THEN [verbosity |-> value, level |-> LevelFor(value)]
    ELSE st

VerbosityValues == (0 - MaxBelow)..MaxVerbosity

\* State.__init__; the default logger has not been set up by the program.
InitVerbosity ==
    /\ verbosity = DefaultVerbosity
    /\ loggerLevel = "UNCONFIGURED"
    /\ passed = <<>>

\* One call of set_verbosity: the -v callback of a command passes the count
\* of its -v flags.
SetVerbosity ==
    /\ Len(passed) < MaxVerbosityCalls
    /\ \E value \in VerbosityValues :
         LET st == set_verbosity([verbosity |-> verbosity, level |-> loggerLevel], value)
         IN  /\ verbosity' = st.verbosity
             /\ loggerLevel' = st.level
             /\ passed' = Append(passed, value)
    /\ UNCHANGED <<parseVars, runVars, distVars>>

(***************************************************************************)
(* Specifications.                                                         *)
(***************************************************************************)
Init == InitRun /\ IdleParse /\ IdleDist /\ InitVerbosity

Next ==
    \/ BuildEntry
    \/ ProxyBuild
    \/ InstallHandler
    \/ StartRelay
    \/ StartDone
    \/ Join
    \/ SigintDefault
    \/ SigintFile
    \/ HandlerStop
    \/ HandlerExit
    \/ SigintProxy

\* The command line program from its start to its end.
Spec == Init /\ [][Next]_vars

\* The handler runs in the main thread, which keeps running: a handler that
\* has been entered takes its next step.
FairSpec == Spec /\ WF_vars(HandlerStop) /\ WF_vars(HandlerExit)

InitP == IdleRun /\ InitParse /\ IdleDist /\ InitVerbosity

NextParse == Parse

\* parse_IP_address applied to one address string.
SpecParse == InitP /\ [][NextParse]_vars

InitD == IdleRun /\ IdleParse /\ InitDist /\ InitVerbosity

NextDist == \E p \in Pumps : SampleCall(p) \/ SampleReturn(p)

\* Two forwarding pumps sampling one shared distribution instance.
SpecDist == InitD /\ [][NextDist]_vars

InitV == IdleRun /\ IdleParse /\ IdleDist /\ InitVerbosity

NextVerbosity == SetVerbosity

\* The -v callbacks of the command line.
SpecVerbosity == InitV /\ [][NextVerbosity]_vars

(***************************************************************************)
(* Properties.                                                             *)
(***************************************************************************)
FromFile == mode = "from_file"

Relays == 1..Len(proxies)

\* C1: in from_file, once the interrupt handler has been entered (during the
\* start loop or during the wait) no relay is started any more, the run can
\* only end with exit status 0 having called stop() on every configured
\* relay, and it does end so.
C1_SignalStopsAllThenExits ==
    /\ [][(FromFile /\ handled) =>
            /\ Len(proxies') = Len(proxies)
            /\ \A i \in Relays : proxies'[i].starts = proxies[i].starts]_vars
    /\ []((FromFile /\ handled) =>
            /\ pc \in {"handler", "done"}
            /\ (pc = "done" =>
                  /\ outcome = "exit0"
                  /\ Len(proxies) = Len(config)
                  /\ \A i \in Relays : proxies[i].stops >= 1))
    /\ ((FromFile /\ handled) ~> (pc = "done" /\ outcome = "exit0"))

\* C1 witness: the signal arrived when the first of two relays had been
\* started and the second had not; both were stopped and the run exited 0.
C1_Witness ==
    /\ FromFile
    /\ outcome = "exit0"
    /\ Len(proxies) = 2
    /\ proxies[1].starts = 1
    /\ proxies[2].starts = 0
    /\ \A i \in Relays : proxies[i].stops >= 1

\* C2: in from_file, when start() of a relay fails to bind, start() has
\* still been attempted on every relay of the list when the run ends.
C2_BindFailureKeepsStarting ==
    (FromFile /\ pc = "done" /\ outcome = "BindError") =>
        \A j \in Relays : proxies[j].starts >= 1

Malformed(e) ==
    parse_IP_address(e.bind_addr).raised \/ parse_IP_address(e.connect_addr).raised

\* C3: in from_file, when some entry of the configuration has an address
\* that parse_IP_address rejects, no relay is ever started: the run never
\* gets past building, and it can only end with an error.
C3_MalformedFailsBeforeAnyStart ==
    (FromFile /\ \E i \in 1..Len(config) : Malformed(config[i])) =>
        /\ \A j \in Relays : proxies[j].starts = 0 /\ proxies[j].state = "CREATED"
        /\ pc \in {"build", "done"}
        /\ ~handlerInstalled
        /\ (pc = "done" => outcome \in ConfigErrors \cup {"KeyboardInterrupt"})

\* C3 witness: the malformed entry is the second one; the first relay was
\* built, and the run ended with the parser's RuntimeError.
C3_Witness ==
    /\ FromFile
    /\ config = <<E_OK1, E_BADCONN>>
    /\ Len(proxies) = 1
    /\ pc = "done"
    /\ outcome = "RuntimeError"

\* C4: in from_file, when the run ends with a configuration error of one
\* entry, every entry with a valid configuration has been built and started.
C4_ValidSiblingsStillStart ==
    (FromFile /\ pc = "done" /\ outcome \in ConfigErrors) =>
        \A i \in 1..Len(config) :
            EntryError(config[i]) = None =>
                \E j \in Relays : proxies[j].entry = i /\ proxies[j].starts >= 1

\* C5: every port that parse_IP_address returns lies in [0, 65535].
C5_PortInRange ==
    (parsePc = "done" /\ ~parsed.raised) =>
        (0 <= parsed.port /\ parsed.port <= MaxPort)

\* C6: stop() never raises and leaves the relay STOPPED whatever its state
\* was, and a STOPPED relay stays STOPPED under every later call.
C6_StopIdempotentTerminal ==
    [][/\ outcome' # "StopError"
       /\ \A i \in Relays :
            /\ proxies[i].state = "STOPPED" => proxies'[i].state = "STOPPED"
            /\ proxies'[i].stops > proxies[i].stops => proxies'[i].state = "STOPPED"]_vars

\* C6 witness: stop() has been called twice on a started relay and on a
\* relay that was never started.
C6_Witness ==
    /\ Len(proxies) = 2
    /\ proxies[1].starts = 1 /\ proxies[1].stops = 2
    /\ proxies[2].starts = 0 /\ proxies[2].stops = 2
    /\ \A i \in Relays : proxies[i].state = "STOPPED"

\* C7: a Gaussian with strictly_positive set returns a value >= 0, and 0 for
\* a negative draw; without it the draw is returned as it is.
C7_GaussianClamp ==
    \A p \in Pumps :
        (dist.kind = "GAUSSIAN" /\ result[p] # <<>>) =>
            IF dist.positive
            THEN /\ result[p][1] >= 0
                 /\ (draw[p][1] < 0 => result[p][1] = 0)
            ELSE result[p][1] = draw[p][1]

\* C7 witness: a strictly positive Gaussian drew a negative value and
\* returned 0.
C7_Witness ==
    /\ dist.kind = "GAUSSIAN"
    /\ dist.positive
    /\ \E p \in Pumps : result[p] = <<0>> /\ draw[p][1] < 0

\* What one call of sample() on a fresh instance d can return.
IsolatedResults(d) == {Sample(d, x, 1) : x \in Draws(d)}

\* C8: no step of sample(), under any interleaving of the two pumps, changes
\* a field of the instance, and every value returned is one a single
\* isolated call could have returned.
C8_SampleLeavesInstanceUnchanged ==
    [][/\ dist' = dist
       /\ \A p \in Pumps :
            result'[p] # <<>> => result'[p][1] \in IsolatedResults(dist)]_vars

\* C8 witness: pump 1 is inside its second sample() while pump 2 has
\* returned from the call it made in between.
C8_Witness ==
    /\ dist.kind = "GAUSSIAN"
    /\ pumpPc[1] = "drawn" /\ draw[1][2] = 3
    /\ pumpPc[2] = "idle" /\ result[2] # <<>> /\ draw[2][2] = 2

\* C9: ConstantDistribution(v).sample() returns v, on every call.
C9_ConstantReturnsConstant ==
    \A p \in Pumps :
        (dist.kind = "CONSTANT" /\ result[p] # <<>>) => result[p][1] = dist.constant

\* C9 witness: the second and third calls on a non-zero constant returned it.
C9_Witness ==
    /\ dist.kind = "CONSTANT"
    /\ dist.constant # 0
    /\ result[1] = <<dist.constant>> /\ draw[1][2] = 3
    /\ result[2] = <<dist.constant>> /\ draw[2][2] = 2

Range(f) == {f[i] : i \in DOMAIN f}

MaxOfSet(S) == CHOOSE m \in S : \A x \in S : x <= m

\* The maximum of -1 and the values passed so far.
TopPassed(s) == MaxOfSet({DefaultVerbosity} \cup Range(s))

\* The logger level the claim gives for a verbosity.
ClaimedLevel(v) ==
    CASE v <= 0 -> "ERROR" [] v = 1 -> "WARNING" [] v = 2 -> "INFO" [] v >= 3 -> "DEBUG"

\* C10: verbosity never decreases and is the maximum of -1 and the values
\* passed; a call with a lower value changes neither it nor the logger
\* level; the logger level, once the program has set it (any call with a
\* value >= -1 does), is ERROR for <= 0, WARNING for 1, INFO for 2 and
\* DEBUG for >= 3 of that maximum.
C10_VerbosityIsMaximum ==
    [][/\ verbosity' = TopPassed(passed')
       /\ verbosity' >= verbosity
       /\ (passed' # passed /\ passed'[Len(passed')] < verbosity) =>
             (verbosity' = verbosity /\ loggerLevel' = loggerLevel)
       /\ (\E i \in DOMAIN passed' : passed'[i] >= DefaultVerbosity) =>
             loggerLevel' = ClaimedLevel(TopPassed(passed'))
       /\ loggerLevel' \in {"UNCONFIGURED", ClaimedLevel(TopPassed(passed'))}]_vars

\* C10 witness: -vv was followed by a call with 0; the verbosity is still 2
\* and the logger level INFO.
C10_Witness ==
    /\ passed = <<2, 0>>
    /\ verbosity = 2
    /\ loggerLevel = "INFO"

====
